---- MODULE Spec2Model ----
(***************************************************************************)
(* Model of the text-to-deck pipeline: parser.py (outline extraction),      *)
(* llm_router.py (provider dispatch and response parsing), slide_maker.py   *)
(* (deck composition, bullet injection) and the generate handler of app.py. *)
(*                                                                          *)
(* A Python str is a sequence of one-character strings.  The two non-ASCII  *)
(* characters of the source, U+2022 and U+2026, are the elements BULLET and *)
(* ELLIPSIS.  An LLM response is a sequence of lexemes (see Lexemes below). *)
(***************************************************************************)
EXTENDS Integers, Sequences, FiniteSets, TLC

VARIABLES
    pc,          \* position of the running call / handler
    text,        \* parser.py: the `text` argument (app.py: user_text)
    max_slides,  \* parser.py: the `max_slides` argument (app.py: the slider)
    sections,    \* heuristic_outline: local `sections` after the cap (l.46)
    outline,     \* the outline returned / app.py: `outline`
    cfg_name,    \* llm_router.py: cfg.name (app.py: provider)
    api_key,     \* app.py: api_key
    reply,       \* what the provider's endpoint answers to the one request
    calls,       \* provider client calls issued so far, in order
    llm,         \* outcome of make_outline_with_llm: returned value or raise
    template,    \* slide_maker.py: the uploaded template (layouts, images)
    slides,      \* slide_maker.py: prs.slides, in deck order
    text_frame,  \* slide_maker.py: paragraphs of the target text frame
    bullets,     \* slide_maker.py: the `bullets` argument of _apply_bullets
    auto_notes,  \* app.py: the speaker-notes checkbox
    warnings     \* app.py: st.warning / st.error messages shown

vars == <<pc, text, max_slides, sections, outline, cfg_name, api_key, reply,
          calls, llm, template, slides, text_frame, bullets, auto_notes,
          warnings>>

-----------------------------------------------------------------------------
(* Python str / list helpers *)

BULLET == "BULLET"
ELLIPSIS == "ELLIPSIS"
NL == "\n"
WS == {" ", NL}

Rep(c, n) == [i \in 1..n |-> c]

\* the element of a one-element set; Only({F(x) : x \in {e}}) is F(e) with e
\* evaluated once
Only(S) == CHOOSE x \in S : TRUE

Min(S) == CHOOSE x \in S : \A y \in S : x <= y
Max(S) == CHOOSE x \in S : \A y \in S : x >= y

\* s[:n]
Take(s, n) == SubSeq(s, 1, IF Len(s) < n THEN Len(s) ELSE n)

\* str.strip(chars)
StripChars(s, cs) ==
    LET keep == {i \in 1..Len(s) : s[i] \notin cs}
    IN  IF keep = {} THEN <<>> ELSE SubSeq(s, Min(keep), Max(keep))

\* str.strip()
Strip(s) == StripChars(s, WS)

RECURSIVE JoinWith(_, _)
\* sep.join(parts)
JoinWith(parts, sep) ==
    IF parts = <<>> THEN <<>>
    ELSE IF Len(parts) = 1 THEN parts[1]
    ELSE parts[1] \o sep \o JoinWith(Tail(parts), sep)

RECURSIVE SplitAt(_, _, _)
\* pieces of s between the separator positions seps (ascending), from `from`
SplitAt(s, seps, from) ==
    IF {p \in seps : p >= from} = {} THEN <<SubSeq(s, from, Len(s))>>
    ELSE LET p == Min({q \in seps : q >= from})
         IN  <<SubSeq(s, from, p - 1)>> \o SplitAt(s, seps, p + 1)

\* str.splitlines(): no trailing empty line after a final line break
splitlines(s) ==
    LET parts == SplitAt(s, {i \in 1..Len(s) : s[i] = NL}, 1)
    IN  IF parts[Len(parts)] = <<>> THEN SubSeq(parts, 1, Len(parts) - 1) ELSE parts

\* str.split('.')[0]
BeforeFirstPeriod(p) ==
    LET dots == {i \in 1..Len(p) : p[i] = "."}
    IN  IF dots = {} THEN p ELSE SubSeq(p, 1, Min(dots) - 1)

\* [x for x in xs if x] on a list of strings
RECURSIVE NonEmpty(_)
NonEmpty(xs) ==
    IF xs = <<>> THEN <<>>
    ELSE (IF xs[1] = <<>> THEN <<>> ELSE <<xs[1]>>) \o NonEmpty(Tail(xs))

\* end of the whitespace run that starts at position i (i - 1 when empty)
RunEnd(s, i) ==
    LET stop == {j \in i..Len(s) : s[j] \notin WS}
    IN  IF stop = {} THEN Len(s) ELSE Min(stop) - 1

-----------------------------------------------------------------------------
(* parser.py *)

TitleCut == 80
TitleMax == 90
BulletMax == 240
BulletCap == 8
HashMax == 6

\* re.match(r'^(#{1,6})\s+(.*)', t) on a stripped line t: the number of
\* leading '#' when the line is a heading, else 0
HeadingHashes(t) ==
    LET nonhash == {i \in 1..Len(t) : t[i] # "#"}
        h == IF nonhash = {} THEN Len(t) ELSE Min(nonhash) - 1
    IN  IF h >= 1 /\ h <= HashMax /\ h < Len(t) /\ t[h + 1] \in WS THEN h ELSE 0

\* m.group(2).strip()
HeadingTitle(t) ==
    LET h == HeadingHashes(t) IN Strip(SubSeq(t, RunEnd(t, h + 1) + 1, Len(t)))

NoCurrent == [titled |-> FALSE, title |-> <<>>, content |-> <<>>]

\* the dict appended at parser.py l.15 / l.20
CloseSection(cur) ==
    [title   |-> IF cur.titled /\ cur.title # <<>> THEN cur.title
                 ELSE <<"S", "e", "c", "t", "i", "o", "n">>,
     content |-> Strip(JoinWith(cur.content, <<NL>>))]

\* `current["title"] or current["content"]`
CurrentTruthy(cur) == (cur.titled /\ cur.title # <<>>) \/ cur.content # <<>>

RECURSIVE SplitLoop(_, _, _)
SplitLoop(lines, cur, acc) ==
    IF lines = <<>>
    THEN IF CurrentTruthy(cur) THEN Append(acc, CloseSection(cur)) ELSE acc
    ELSE LET t == Strip(lines[1])
         IN  IF HeadingHashes(t) > 0
             THEN SplitLoop(Tail(lines),
                            [titled |-> TRUE, title |-> HeadingTitle(t), content |-> <<>>],
                            IF CurrentTruthy(cur) THEN Append(acc, CloseSection(cur)) ELSE acc)
             ELSE SplitLoop(Tail(lines),
                            [cur EXCEPT !.content = Append(@, lines[1])], acc)

_split_markdown_sections(md) ==
    LET secs == SplitLoop(splitlines(md), NoCurrent, <<>>)
    IN  SelectSeq(secs, LAMBDA s : s.title # <<>> \/ s.content # <<>>)

RECURSIVE SplitParagraphs(_, _)
\* re.split(r'\n\s*\n', text): a line break, any whitespace, a line break
SplitParagraphs(s, from) ==
    LET starts == {i \in from..Len(s) :
                     s[i] = NL /\ \E j \in (i + 1)..RunEnd(s, i + 1) : s[j] = NL}
    IN  IF starts = {} THEN <<SubSeq(s, from, Len(s))>>
        ELSE LET i == Min(starts)
                 e == Max({j \in (i + 1)..RunEnd(s, i + 1) : s[j] = NL})
             IN  <<SubSeq(s, from, i - 1)>> \o SplitParagraphs(s, e + 1)

\* parser.py l.27: the stripped non-blank paragraphs
Paragraphs(txt) ==
    LET parts == SplitParagraphs(txt, 1)
    IN  NonEmpty([i \in 1..Len(parts) |-> Strip(parts[i])])

\* parser.py l.28-30: one candidate section per paragraph
ParagraphSection(p) ==
    LET title == Take(BeforeFirstPeriod(p), TitleCut)
    IN  [title |-> IF title = <<>> THEN <<"T", "o", "p", "i", "c">> ELSE title,
         content |-> p]

\* parser.py l.38-40 / l.43-45: one merged section from a bucket
BucketSection(bucket) ==
    [title   |-> bucket[1].title,
     content |-> JoinWith([i \in 1..Len(bucket) |-> bucket[i].content], <<NL, NL>>)]

\* parser.py l.37: max(1, len(sections)//max_slides)
BucketSize(n, k) == IF n \div k < 1 THEN 1 ELSE n \div k

RECURSIVE MergeLoop(_, _, _, _)
\* parser.py l.33-45
MergeLoop(secs, bucket, merged, size) ==
    IF secs = <<>>
    THEN IF bucket # <<>> THEN Append(merged, BucketSection(bucket)) ELSE merged
    ELSE LET b == Append(bucket, secs[1])
         IN  IF Len(b) >= size
             THEN MergeLoop(Tail(secs), <<>>, Append(merged, BucketSection(b)), size)
             ELSE MergeLoop(Tail(secs), b, merged, size)

\* parser.py l.32-46: the cap on the number of sections
CapSections(secs, k) ==
    IF Len(secs) > k
    THEN Take(MergeLoop(secs, <<>>, <<>>, BucketSize(Len(secs), k)), k)
    ELSE secs

RECURSIVE SplitBullets(_, _)
\* re.split(r'[\n<U+2022>\-]\s+', content): a line break, a bullet mark or a
\* hyphen, followed by whitespace
SplitBullets(s, from) ==
    LET starts == {i \in from..(Len(s) - 1) :
                     s[i] \in {NL, BULLET, "-"} /\ s[i + 1] \in WS}
    IN  IF starts = {} THEN <<SubSeq(s, from, Len(s))>>
        ELSE LET i == Min(starts)
             IN  <<SubSeq(s, from, i - 1)>> \o SplitBullets(s, RunEnd(s, i + 1) + 1)

\* ' '.join(b.split()) for a stripped b: every whitespace run becomes one blank
Collapse(b) ==
    LET tagged == [i \in 1..Len(b) |-> <<i, b[i]>>]
        kept   == SelectSeq(tagged, LAMBDA p :
                      p[2] \notin WS \/ (p[1] > 1 /\ b[p[1] - 1] \notin WS))
    IN  [n \in 1..Len(kept) |-> IF kept[n][2] \in WS THEN " " ELSE kept[n][2]]

\* textwrap.shorten(b, width, placeholder=ELLIPSIS) for a stripped b: the
\* collapsed text when it fits the width; else the longest run of whole words
\* that leaves room for the placeholder, then the placeholder (a first word
\* that leaves no room is dropped, and the placeholder stands alone)
shorten(b, width) ==
    LET c    == Collapse(b)
        ends == {j \in 1..(width - 1) :
                   /\ j <= Len(c)
                   /\ c[j] # " "
                   /\ (j = Len(c) \/ c[j + 1] = " ")}
    IN  IF Len(c) <= width THEN c
        ELSE IF ends = {} THEN <<ELLIPSIS>>
        ELSE Append(SubSeq(c, 1, Max(ends)), ELLIPSIS)

\* parser.py l.52: one bullet, shortened when over the limit
LimitBullet(b) == IF Len(b) <= BulletMax THEN b ELSE shorten(b, BulletMax)

\* parser.py l.50-52
HeuristicBullets(content) ==
    LET parts == SplitBullets(content, 1)
        kept  == Take(NonEmpty([i \in 1..Len(parts) |-> Strip(parts[i])]), BulletCap)
    IN  [i \in 1..Len(kept) |-> LimitBullet(kept[i])]

\* parser.py l.25-30: the candidate sections
CandidateSections(txt) ==
    LET secs == _split_markdown_sections(txt)
    IN  IF secs # <<>> THEN secs
        ELSE LET ps == Paragraphs(txt)
             IN  [i \in 1..Len(ps) |-> ParagraphSection(ps[i])]

\* parser.py l.48-53
OutlineOf(secs, k) ==
    LET top == Take(secs, k)
    IN  [i \in 1..Len(top) |->
            [title |-> Take(top[i].title, TitleMax),
             bullets |-> HeuristicBullets(top[i].content)]]

heuristic_outline(txt, k) == OutlineOf(CapSections(CandidateSections(txt), k), k)

\* parser.py l.62-63
StructuredBullets(content) ==
    LET lns  == splitlines(content)
        live == SelectSeq(lns, LAMBDA ln : Strip(ln) # <<>>)
    IN  Take(NonEmpty([i \in 1..Len(live) |-> StripChars(live[i], {" ", "-", BULLET})]),
             BulletCap)

\* outline_from_text without the [:max_slides] slice of l.61
outline_from_text_unsliced(txt, k) ==
    LET secs == _split_markdown_sections(txt)
    IN  IF secs # <<>>
        THEN [i \in 1..Len(secs) |->
                 [title |-> Take(secs[i].title, TitleMax),
                  bullets |-> StructuredBullets(secs[i].content)]]
        ELSE heuristic_outline(txt, k)

outline_from_text(txt, k) ==
    LET secs == _split_markdown_sections(txt)
    IN  IF secs # <<>>
        THEN LET top == Take(secs, k)
             IN  [i \in 1..Len(top) |->
                     [title |-> Take(top[i].title, TitleMax),
                      bullets |-> StructuredBullets(top[i].content)]]
        ELSE heuristic_outline(txt, k)

-----------------------------------------------------------------------------
(* Inputs of the extraction entry points *)

MaxBlocks == 4
MaxK == 3

\* "# A" / "x": a heading and one line of content
BlockHeadA == <<"#", " ", "A", NL, "x">>
\* "## B" / "- y": a second-level heading and a marked line
BlockHeadB == <<"#", "#", " ", "B", NL, "-", " ", "y">>
\* "a. b": a line with a sentence end and no heading
BlockSentence == <<"a", ".", " ", "b">>
\* an empty line
BlockBlank == <<>>

BlockPool == {BlockHeadA, BlockHeadB, BlockSentence, BlockBlank}

RECURSIVE SeqsUpTo(_, _)
\* the sequences over S of length 1..n
SeqsUpTo(S, n) ==
    IF n = 0 THEN {}
    ELSE LET shorter == SeqsUpTo(S, n - 1)
         IN  {<<x>> : x \in S} \cup shorter \cup
             {Append(q, x) : q \in shorter, x \in S}

ShortTexts == {JoinWith(bs, <<NL>>) : bs \in SeqsUpTo(BlockPool, MaxBlocks)} \ {<<>>}

\* texts with an over-long line or an over-long heading
LongTexts ==
    { <<"#", " ", "T", NL>> \o Rep("a", BulletMax + 1),
      <<"#", " ">> \o Rep("t", TitleMax + 1) \o <<NL, "x">>,
      Rep("a", BulletMax + 1),
      [i \in 1..(BulletMax + 3) |-> IF i % 3 = 0 THEN " " ELSE "a"],
      Rep("s", TitleCut + 5) \o <<".", " ", "z">> }

Texts == ShortTexts \cup LongTexts

-----------------------------------------------------------------------------
(* The extraction entry points, each called once on one input *)

\* no call of make_outline_with_llm has ended yet
LlmIdle == [raised |-> FALSE, value |-> [k |-> "unset", s |-> "", keys |-> <<>>, items |-> <<>>]]

Idle ==
    /\ cfg_name = <<>> /\ api_key = <<>> /\ reply = <<>> /\ calls = <<>>
    /\ llm = LlmIdle /\ template = <<>> /\ slides = <<>> /\ text_frame = <<>>
    /\ bullets = <<>> /\ auto_notes = FALSE /\ warnings = <<>>

InitParser ==
    /\ pc = "start"
    /\ text \in Texts
    /\ max_slides \in 1..MaxK
    /\ sections = <<>>
    /\ outline = <<>>
    /\ Idle

CallOutlineFromText ==
    /\ pc = "start"
    /\ pc' = "outline_from_text"
    /\ outline' = outline_from_text(text, max_slides)
    /\ UNCHANGED <<text, max_slides, sections, cfg_name, api_key, reply, calls,
                   llm, template, slides, text_frame, bullets,
                   auto_notes, warnings>>

CallHeuristicOutline ==
    /\ pc = "start"
    /\ pc' = "heuristic_outline"
    /\ sections' = CapSections(CandidateSections(text), max_slides)
    /\ outline' = heuristic_outline(text, max_slides)
    /\ UNCHANGED <<text, max_slides, cfg_name, api_key, reply, calls,
                   llm, template, slides, text_frame, bullets,
                   auto_notes, warnings>>

NextParser == CallOutlineFromText \/ CallHeuristicOutline

SpecParser == InitParser /\ [][NextParser]_vars

Returned == pc \in {"outline_from_text", "heuristic_outline"}

\* C1: the outline either entry point returns has at most max_slides entries
C1_OutlineWithinCap == Returned => Len(outline) <= max_slides

\* C1 witness: heuristic_outline returned after merging more candidate
\* sections than max_slides, and the outline is exactly at the cap
C1_Witness ==
    /\ pc = "heuristic_outline"
    /\ Len(CandidateSections(text)) > max_slides
    /\ Len(outline) = max_slides

\* C2: every returned entry has a title of at most 90 characters, at most 8
\* bullets, and no bullet longer than 240 characters
C2_EntryLimits ==
    Returned =>
        \A i \in 1..Len(outline) :
            /\ Len(outline[i].title) <= TitleMax
            /\ Len(outline[i].bullets) <= BulletCap
            /\ \A j \in 1..Len(outline[i].bullets) :
                   Len(outline[i].bullets[j]) <= BulletMax

\* no line of the text is a heading line
NoHeadingLine(txt) ==
    \A i \in 1..Len(splitlines(txt)) : HeadingHashes(Strip(splitlines(txt)[i])) = 0

\* C3: a text without heading lines, made of n <= max_slides non-empty
\* paragraphs, gives n entries in paragraph order, entry i titled by
\* paragraph i up to its first period, cut to 80 characters
C3_ParagraphOutline ==
    (/\ Returned /\ NoHeadingLine(text)
     /\ Len(Paragraphs(text)) >= 1 /\ Len(Paragraphs(text)) <= max_slides) =>
        /\ Len(outline) = Len(Paragraphs(text))
        /\ \A i \in 1..Len(outline) :
               outline[i].title = Take(BeforeFirstPeriod(Paragraphs(text)[i]), TitleCut)

\* the text opens with a heading line, so that every section is heading-delimited
OpensWithHeading(txt) ==
    splitlines(txt) # <<>> /\ HeadingHashes(Strip(splitlines(txt)[1])) > 0

\* C9: with n heading-delimited sections, k dividing n and n > k,
\* outline_from_text returns k buckets; bucket j is titled by section
\* (j-1)*(n/k)+1 and carries the content of sections (j-1)*(n/k)+1 .. j*(n/k)
C9_EvenBuckets ==
    LET secs == _split_markdown_sections(text)
        n    == Len(secs)
        k    == max_slides
        BulletSet(b) == {b[i] : i \in 1..Len(b)}
    IN  (pc = "outline_from_text" /\ OpensWithHeading(text) /\ n > k /\ n % k = 0) =>
            /\ Len(outline) = k
            /\ \A j \in 1..Len(outline) :
                   /\ (j - 1) * (n \div k) + 1 <= n
                   /\ outline[j].title = Take(secs[(j - 1) * (n \div k) + 1].title, TitleMax)
                   /\ \A m \in ((j - 1) * (n \div k) + 1)..(j * (n \div k)) :
                          m <= n =>
                              BulletSet(StructuredBullets(secs[m].content))
                                  \subseteq BulletSet(outline[j].bullets)

\* C10: when the n candidate sections exceed max_slides = k, the capped
\* sections are the consecutive runs of ceil(n/k) candidates, each titled by
\* its first member and holding its members' content joined by blank lines
C10_CeilBuckets ==
    LET cand == CandidateSections(text)
        n    == Len(cand)
        CeilDiv(a, b) == (a + b - 1) \div b
        size == CeilDiv(n, max_slides)
    IN  (pc = "heuristic_outline" /\ n > max_slides) =>
            /\ Len(sections) = CeilDiv(n, size)
            /\ Len(sections) <= max_slides
            /\ \A j \in 1..Len(sections) :
                   LET lo == (j - 1) * size + 1
                       hi == IF j * size < n THEN j * size ELSE n
                   IN  /\ lo <= n
                       /\ sections[j].title = cand[lo].title
                       /\ sections[j].content =
                              JoinWith([m \in 1..(hi - lo + 1) |-> cand[lo + m - 1].content],
                                       <<NL, NL>>)

-----------------------------------------------------------------------------
(* llm_router.py *)

\* A response is a sequence of lexemes: the JSON punctuation "[", "]", "{",
\* "}", ",", ":", string literals, number literals, null, whitespace, and
\* any other lexeme, which is prose.
StrLexemes == {"'title'", "'bullets'", "'slides'", "'A'", "'x'", "'y'"}
NumLexemes == {"42"}
WsLexemes == {" ", NL}

\* the values json.loads returns
JV(k, s, keys, items) == [k |-> k, s |-> s, keys |-> keys, items |-> items]
JNull == JV("null", "", <<>>, <<>>)
JNum(x) == JV("num", x, <<>>, <<>>)
JStr(x) == JV("str", x, <<>>, <<>>)
JList(items) == JV("list", "", <<>>, items)
JDict(keys, vals) == JV("dict", "", keys, vals)

\* first position at or after i that holds no whitespace (Len(t) + 1 if none)
SkipWs(t, i) ==
    LET stop == {j \in i..Len(t) : t[j] \notin WsLexemes}
    IN  IF stop = {} THEN Len(t) + 1 ELSE Min(stop)

ParseFail == [ok |-> FALSE, v |-> JNull, next |-> 0]
ParseOk(v, next) == [ok |-> TRUE, v |-> v, next |-> next]

RECURSIVE ParseValue(_, _), ParseItems(_, _, _), ParseMembers(_, _, _, _)

\* json: one value starting at or after position i0
ParseValue(t, i0) ==
    LET i == SkipWs(t, i0)
    IN  IF i > Len(t) THEN ParseFail
        ELSE IF t[i] = "["
             THEN LET j == SkipWs(t, i + 1)
                  IN  IF j <= Len(t) /\ t[j] = "]" THEN ParseOk(JList(<<>>), j + 1)
                      ELSE ParseItems(t, i + 1, <<>>)
        ELSE IF t[i] = "{"
             THEN LET j == SkipWs(t, i + 1)
                  IN  IF j <= Len(t) /\ t[j] = "}" THEN ParseOk(JDict(<<>>, <<>>), j + 1)
                      ELSE ParseMembers(t, i + 1, <<>>, <<>>)
        ELSE IF t[i] \in StrLexemes THEN ParseOk(JStr(t[i]), i + 1)
        ELSE IF t[i] \in NumLexemes THEN ParseOk(JNum(t[i]), i + 1)
        ELSE IF t[i] = "null" THEN ParseOk(JNull, i + 1)
        ELSE ParseFail

\* json: the items of an array after "[", up to and including "]"
ParseItems(t, i, acc) ==
    Only({ IF ~r.ok THEN ParseFail
           ELSE LET j == SkipWs(t, r.next)
                IN  IF j > Len(t) THEN ParseFail
                    ELSE IF t[j] = "," THEN ParseItems(t, j + 1, Append(acc, r.v))
                    ELSE IF t[j] = "]" THEN ParseOk(JList(Append(acc, r.v)), j + 1)
                    ELSE ParseFail
           : r \in {ParseValue(t, i)} })

\* json: the members of an object after "{", up to and including "}"
ParseMembers(t, i0, keys, vals) ==
    LET i == SkipWs(t, i0)
    IN  IF i > Len(t) \/ t[i] \notin StrLexemes THEN ParseFail
        ELSE LET c == SkipWs(t, i + 1)
             IN  IF c > Len(t) \/ t[c] # ":" THEN ParseFail
                 ELSE Only({ IF ~r.ok THEN ParseFail
                             ELSE LET j == SkipWs(t, r.next)
                                  IN  IF j > Len(t) THEN ParseFail
                                      ELSE IF t[j] = ","
                                           THEN ParseMembers(t, j + 1, Append(keys, t[i]),
                                                             Append(vals, r.v))
                                      ELSE IF t[j] = "}"
                                           THEN ParseOk(JDict(Append(keys, t[i]),
                                                              Append(vals, r.v)), j + 1)
                                      ELSE ParseFail
                             : r \in {ParseValue(t, c + 1)} })

Raised == [raised |-> TRUE, value |-> JNull]
Value(v) == [raised |-> FALSE, value |-> v]

\* json.loads(s): one value and nothing but whitespace after it
json_loads(t) ==
    Only({ IF r.ok /\ SkipWs(t, r.next) > Len(t) THEN Value(r.v) ELSE Raised
           : r \in {ParseValue(t, 1)} })

\* re.search(r'(\[.*\])', s, flags=re.S): from the first "[" to the last "]"
\* after it; <<>> when there is no match
BracketSpan(t) ==
    LET opens  == {i \in 1..Len(t) : t[i] = "["}
        closes == {i \in 1..Len(t) : t[i] = "]"}
    IN  IF opens = {} \/ {c \in closes : c > Min(opens)} = {} THEN <<>>
        ELSE SubSeq(t, Min(opens), Max(closes))

_safe_parse_json(t) ==
    Only({ IF ~direct.raised THEN direct
           ELSE IF BracketSpan(t) # <<>> THEN json_loads(BracketSpan(t))
           ELSE Raised
           : direct \in {json_loads(t)} })

UpperCase == <<"A", "B", "C", "D", "E", "F", "G", "H", "I", "J", "K", "L", "M", "N", "O", "P", "Q", "R", "S", "T", "U", "V", "W", "X", "Y", "Z">>
LowerCase == <<"a", "b", "c", "d", "e", "f", "g", "h", "i", "j", "k", "l", "m", "n", "o", "p", "q", "r", "s", "t", "u", "v", "w", "x", "y", "z">>

\* str.lower()
Lower(s) ==
    [i \in 1..Len(s) |->
        IF \E n \in 1..Len(UpperCase) : UpperCase[n] = s[i]
        THEN LowerCase[CHOOSE n \in 1..Len(UpperCase) : UpperCase[n] = s[i]]
        ELSE s[i]]

\* `sub in s`
Contains(sub, s) ==
    \E i \in 0..(Len(s) - Len(sub)) : SubSeq(s, i + 1, i + Len(sub)) = sub

KeyOpenAI == <<"o", "p", "e", "n", "a", "i">>
KeyAnthropic == <<"a", "n", "t", "h", "r", "o", "p", "i", "c">>
KeyGemini == <<"g", "e", "m", "i", "n", "i">>
KeyGoogle == <<"g", "o", "o", "g", "l", "e">>

\* what the provider's endpoint does with the one request: fail, or answer
ReplyError == [error |-> TRUE, content |-> <<>>]
ReplyContent(t) == [error |-> FALSE, content |-> t]

\* the outcome of one provider branch (l.37-44, l.45-53, l.54-61): one
\* client call, then the parse of its content
ProviderBranch(provider, rep) ==
    IF rep.error THEN [calls |-> <<provider>>, raised |-> TRUE, value |-> JNull]
    ELSE Only({ [calls |-> <<provider>>, raised |-> parsed.raised, value |-> parsed.value]
                : parsed \in {_safe_parse_json(rep.content)} })

\* make_outline_with_llm without the .lower() of l.36
make_outline_with_llm_cased(name, rep) ==
    IF Contains(KeyOpenAI, name) THEN ProviderBranch("openai", rep)
    ELSE IF Contains(KeyAnthropic, name) THEN ProviderBranch("anthropic", rep)
    ELSE IF Contains(KeyGemini, name) \/ Contains(KeyGoogle, name)
         THEN ProviderBranch("gemini", rep)
    ELSE [calls |-> <<>>, raised |-> TRUE, value |-> JNull]

make_outline_with_llm(name, rep) ==
    LET lname == Lower(name)
    IN  IF Contains(KeyOpenAI, lname) THEN ProviderBranch("openai", rep)
        ELSE IF Contains(KeyAnthropic, lname) THEN ProviderBranch("anthropic", rep)
        ELSE IF Contains(KeyGemini, lname) \/ Contains(KeyGoogle, lname)
             THEN ProviderBranch("gemini", rep)
        ELSE [calls |-> <<>>, raised |-> TRUE, value |-> JNull]

-----------------------------------------------------------------------------
(* Inputs of make_outline_with_llm *)

NameOpenAI == <<"O", "p", "e", "n", "A", "I">>
NameAnthropic == <<"A", "n", "t", "h", "r", "o", "p", "i", "c">>
NameGemini == <<"G", "e", "m", "i", "n", "i">>
NameNone == <<"N", "o", "n", "e", " ", "(", "h", "e", "u", "r", "i", "s", "t", "i", "c", ")">>

\* cfg.name: the three names the form offers, other spellings, and names of
\* no supported provider (the empty name stands for a missing one, l.36)
ProviderNames ==
    { NameOpenAI, NameAnthropic, NameGemini,
      <<"G", "E", "M", "I", "N", "I">>, <<"G", "o", "o", "g", "l", "e", " ", "A", "I">>, <<"m", "y", "-", "o", "p", "e", "n", "a", "i", "-", "a", "n", "t", "h", "r", "o", "p", "i", "c">>,
      <<"M", "i", "s", "t", "r", "a", "l">>, <<"O", "p", "e", "n", " ", "A", "I">>, <<>> }

\* [{"title": "A", "bullets": ["x"]}]
ArrayOne ==
    <<"[", "{", "'title'", ":", "'A'", ",", "'bullets'", ":", "[", "'x'", "]", "}", "]">>
\* [{"title": "A", "bullets": ["x", "y"]}, {"title": "x", "bullets": []}]
ArrayTwo ==
    <<"[", "{", "'title'", ":", "'A'", ",", "'bullets'", ":", "[", "'x'", ",", "'y'", "]", "}",
      ",", "{", "'title'", ":", "'x'", ",", "'bullets'", ":", "[", "]", "}", "]">>

ValidArrays == {ArrayOne, ArrayTwo}

\* payloads that are JSON but no array of entries, and one that is no JSON
OtherPayloads ==
    { <<"{", "'title'", ":", "'A'", "}">>,
      <<"{", "'slides'", ":">> \o ArrayOne \o <<"}">>,
      <<"42">>,
      <<"null">>,
      <<"Sorry", ",", " ", "no", " ", "outline">> }

\* prose and code-fence text around the payload
Prefixes == { <<>>, <<"Here", " ", "you", " ", "go:", NL>>, <<"FENCE", "json", NL>> }
Suffixes == { <<>>, <<NL, "FENCE">>, <<" ", "[", "end", "]">> }

Responses ==
    {pre \o body \o suf :
        pre \in Prefixes, body \in ValidArrays \cup OtherPayloads, suf \in Suffixes}

Replies == {ReplyError} \cup {ReplyContent(t) : t \in Responses}

-----------------------------------------------------------------------------
(* make_outline_with_llm, called once on one configuration *)

InitRouter ==
    /\ pc = "start"
    /\ cfg_name \in ProviderNames
    /\ reply \in Replies
    /\ calls = <<>>
    /\ llm = LlmIdle
    /\ text = <<>> /\ max_slides = 0 /\ sections = <<>> /\ outline = <<>>
    /\ api_key = <<>> /\ template = <<>> /\ slides = <<>> /\ text_frame = <<>>
    /\ bullets = <<>> /\ auto_notes = FALSE /\ warnings = <<>>

CallMakeOutlineWithLLM ==
    /\ pc = "start"
    /\ \E r \in {make_outline_with_llm(cfg_name, reply)} :
           /\ calls' = calls \o r.calls
           /\ llm' = [raised |-> r.raised, value |-> r.value]
           /\ pc' = IF r.raised THEN "raised" ELSE "returned"
    /\ UNCHANGED <<text, max_slides, sections, outline, cfg_name, api_key, reply,
                   template, slides, text_frame, bullets,
                   auto_notes, warnings>>

NextRouter == CallMakeOutlineWithLLM

SpecRouter == InitRouter /\ [][NextRouter]_vars

\* the name matches a supported provider, case-insensitively
Recognized(name) ==
    \E key \in {KeyOpenAI, KeyAnthropic, KeyGemini, KeyGoogle} : Contains(key, Lower(name))

\* C5: an unrecognized provider name raises with no provider call issued; a
\* recognized name issues exactly one provider's call
C5_Dispatch ==
    pc \in {"raised", "returned"} =>
        /\ ~Recognized(cfg_name) => (pc = "raised" /\ calls = <<>>)
        /\ Recognized(cfg_name) => Len(calls) = 1

\* C5 witness: the call on an unrecognized name has raised without any call
C5_Witness == pc = "raised" /\ ~Recognized(cfg_name) /\ calls = <<>> /\ ~reply.error

\* C6: a response that parses directly is returned as parsed; a response
\* that wraps a valid array of entries in prose or code-fence text gives
\* that array; and only a response that fails both stages raises
C6_TwoStageParse ==
    (pc \in {"raised", "returned"} /\ Recognized(cfg_name) /\ ~reply.error) =>
        /\ ~json_loads(reply.content).raised =>
               (pc = "returned" /\ llm = json_loads(reply.content))
        /\ \A pre \in Prefixes, body \in ValidArrays, suf \in Suffixes :
               reply.content = pre \o body \o suf =>
                   (pc = "returned" /\ llm = json_loads(body))

-----------------------------------------------------------------------------
(* slide_maker.py *)

\* l.32-45 on the paragraphs of a text frame (python-pptx keeps at least one):
\* every paragraph is emptied and stays; the first takes the first bullet,
\* every further bullet is a paragraph added at the end
_apply_bullets(paragraphs, bl) ==
    LET cleared == [i \in 1..Len(paragraphs) |-> ""]
    IN  IF bl = <<>> THEN cleared
        ELSE [cleared EXCEPT ![1] = bl[1]] \o Tail(bl)

KeyTitle == <<"t", "i", "t", "l", "e">>
KeyContent == <<"c", "o", "n", "t", "e", "n", "t">>
KeyText == <<"t", "e", "x", "t">>
KeyBody == <<"b", "o", "d", "y">>
KeyTitleOnly == <<"t", "i", "t", "l", "e", " ", "o", "n", "l", "y">>

\* l.47-52
_title_content_layout(layouts) ==
    LET hits == {i \in 1..Len(layouts) :
                   /\ Contains(KeyTitle, Lower(layouts[i].name))
                   /\ \/ Contains(KeyContent, Lower(layouts[i].name))
                      \/ Contains(KeyText, Lower(layouts[i].name))
                      \/ Contains(KeyBody, Lower(layouts[i].name))}
    IN  IF hits = {} THEN layouts[1] ELSE layouts[Min(hits)]

\* l.54-58
_title_only_layout(layouts) ==
    LET hits == {i \in 1..Len(layouts) : Contains(KeyTitleOnly, Lower(layouts[i].name))}
    IN  IF hits = {} THEN layouts[1] ELSE layouts[Min(hits)]

\* prs.slides.add_slide(layout), then the title set when the slide has a title
\* shape (l.93-98, l.110-115, l.62-67); a text placeholder starts with one
\* empty paragraph
NewSlide(layout, title) ==
    [layout     |-> layout.name,
     has_title  |-> layout.title,
     title      |-> title,
     paragraphs |-> IF layout.body THEN <<"">> ELSE <<>>,
     picture    |-> "",
     notes      |-> <<>>]

\* the entries build_presentation walks: a heuristic outline as it is, a
\* parsed response entry by entry (.get("title", "Slide"), .get("bullets", []))
EntryOf(v) ==
    [title   |-> IF \E n \in 1..Len(v.keys) : v.keys[n] = "'title'"
                 THEN v.items[CHOOSE n \in 1..Len(v.keys) : v.keys[n] = "'title'"].s
                 ELSE "Slide",
     bullets |-> IF \E n \in 1..Len(v.keys) : v.keys[n] = "'bullets'"
                 THEN LET b == v.items[CHOOSE n \in 1..Len(v.keys) : v.keys[n] = "'bullets'"]
                      IN  [i \in 1..Len(b.items) |-> b.items[i].s]
                 ELSE <<>>]

\* a parsed response that is a list of {title, bullets} objects of strings
IsEntry(v) ==
    /\ v.k = "dict"
    /\ \E n \in 1..Len(v.keys) : v.keys[n] = "'title'" /\ v.items[n].k = "str"
    /\ \A n \in 1..Len(v.keys) :
           v.keys[n] = "'bullets'" =>
               (v.items[n].k = "list" /\
                \A i \in 1..Len(v.items[n].items) : v.items[n].items[i].k = "str")
IsEntryList(v) == v.k = "list" /\ \A i \in 1..Len(v.items) : IsEntry(v.items[i])

Entries(o) ==
    IF o.src = "parser" THEN o.entries
    ELSE [i \in 1..Len(o.value.items) |-> EntryOf(o.value.items[i])]

\* whether build_presentation raises on this outline, for the values the
\* replies below parse to: outline[0]["title"] (l.84) raises on a non-empty
\* dict; a list of entries and an empty dict build; a number never gets here
\* (app.py l.108)
BuildRaises(o) ==
    /\ o.src = "llm"
    /\ ~IsEntryList(o.value)
    /\ ~(o.value.k = "dict" /\ o.value.keys = <<>>)

\* _gen_notes (l.157-168): the bullets the notes text is joined from, and the
\* provider calls issued for it
GenNotes(entry, name, rep) ==
    Only({ LET usable == /\ ~r.raised
                         /\ r.value.k = "list"
                         /\ r.value.items # <<>>
                         /\ IsEntry(r.value.items[1])
                         /\ EntryOf(r.value.items[1]).bullets # <<>>
           IN  [calls |-> r.calls,
                notes |-> IF usable THEN EntryOf(r.value.items[1]).bullets
                          ELSE entry.bullets]
           : r \in {make_outline_with_llm(name, rep)} })

RECURSIVE SlideLoop(_, _, _, _, _, _)
\* slide_maker.py l.92-128 from entry i on: acc.slides is prs.slides and
\* acc.calls the provider calls issued for notes so far
SlideLoop(entries, i, acc, tpl, imgs, notes_cfg) ==
    IF i > Len(entries) THEN acc
    ELSE LET e         == entries[i]
             layout_tc == _title_content_layout(tpl.layouts)
             first     == NewSlide(layout_tc, e.title)
             filled    == [first EXCEPT !.paragraphs = _apply_bullets(@, e.bullets)]
             fallback  == NewSlide(_title_only_layout(tpl.layouts), e.title)
             \* `slide` after l.109-117, and the slides added for this entry
             slide     == IF layout_tc.body THEN filled ELSE fallback
             before    == IF layout_tc.body THEN <<>> ELSE <<first>>
             pictured  == IF imgs = <<>> THEN slide
                          ELSE [slide EXCEPT
                                   !.picture = imgs[((i - 1) % Len(imgs)) + 1]]
             NoNotes   == [calls |-> <<>>, notes |-> <<>>]
         IN  Only({ SlideLoop(entries, i + 1, next, tpl, imgs, notes_cfg)
                    : next \in
                        { [slides |-> acc.slides \o before \o
                                          <<[pictured EXCEPT !.notes = gen.notes]>>,
                           calls  |-> acc.calls \o gen.calls]
                          : gen \in {IF notes_cfg.on
                                     THEN GenNotes(e, notes_cfg.name, notes_cfg.reply)
                                     ELSE NoNotes} } })

\* l.84-86: the cover slide, made from the first layout
CoverSlide(entries, tpl) ==
    NewSlide(tpl.layouts[1],
             IF entries = <<>> THEN "Presentation" ELSE entries[1].title)

\* build_presentation (l.76-132): the deck's slides in order, and the provider
\* calls issued for notes; imgs is the shuffled image list of l.81-82
build_presentation(o, tpl, imgs, notes_cfg) ==
    Only({ [slides |-> <<CoverSlide(Entries(o), tpl)>> \o rest.slides,
            calls  |-> rest.calls]
           : rest \in {SlideLoop(Entries(o), 1, [slides |-> <<>>, calls |-> <<>>],
                                 tpl, imgs, notes_cfg)} })

-----------------------------------------------------------------------------
(* _apply_bullets, called once on one text frame *)

MaxParagraphs == 3
MaxBullets == 3

InitBullets ==
    /\ pc = "start"
    /\ text_frame \in SeqsUpTo({"", "old"}, MaxParagraphs)
    /\ bullets \in {<<>>} \cup SeqsUpTo({"a", "b"}, MaxBullets)
    /\ text = <<>> /\ max_slides = 0 /\ sections = <<>> /\ outline = <<>>
    /\ cfg_name = <<>> /\ api_key = <<>> /\ reply = <<>> /\ calls = <<>>
    /\ llm = LlmIdle /\ template = <<>> /\ slides = <<>>
    /\ auto_notes = FALSE /\ warnings = <<>>

CallApplyBullets ==
    /\ pc = "start"
    /\ pc' = "applied"
    /\ text_frame' = _apply_bullets(text_frame, bullets)
    /\ UNCHANGED <<text, max_slides, sections, outline, cfg_name, api_key, reply,
                   calls, llm, template, slides, bullets, auto_notes, warnings>>

NextBullets == CallApplyBullets

SpecBullets == InitBullets /\ [][NextBullets]_vars

-----------------------------------------------------------------------------
(* app.py: one click on "Generate Presentation" *)

MinSlider == 3
MaxSlider == 4

LayoutTitleSlide == [name |-> <<"T", "i", "t", "l", "e", " ", "S", "l", "i", "d", "e">>, title |-> TRUE, body |-> TRUE]
LayoutContent == [name |-> <<"T", "i", "t", "l", "e", " ", "a", "n", "d", " ", "C", "o", "n", "t", "e", "n", "t">>, title |-> TRUE, body |-> TRUE]
LayoutTitleOnly == [name |-> <<"T", "i", "t", "l", "e", " ", "O", "n", "l", "y">>, title |-> TRUE, body |-> FALSE]
LayoutBlank == [name |-> <<"B", "l", "a", "n", "k">>, title |-> FALSE, body |-> FALSE]

Template(present, oversized, layouts, images) ==
    [present |-> present, oversized |-> oversized, layouts |-> layouts, images |-> images]

\* the usual four layouts, and a template with no title-and-content layout
StandardLayouts == <<LayoutTitleSlide, LayoutContent, LayoutTitleOnly, LayoutBlank>>
SparseLayouts == <<LayoutTitleOnly, LayoutBlank>>

Templates ==
    { Template(FALSE, FALSE, <<>>, <<>>),
      Template(TRUE, TRUE, StandardLayouts, <<>>),
      Template(TRUE, FALSE, StandardLayouts, <<>>),
      Template(TRUE, FALSE, StandardLayouts, <<"image1.png", "image2.jpg">>),
      Template(TRUE, FALSE, SparseLayouts, <<>>) }

AppTexts ==
    { <<>>,
      JoinWith(<<BlockHeadA, BlockHeadB>>, <<NL>>),
      JoinWith(<<BlockSentence, BlockBlank, BlockSentence>>, <<NL>>) }

AppReplies ==
    { ReplyError,
      ReplyContent(ArrayOne),
      ReplyContent(<<"Here", " ", "you", " ", "go:", NL>> \o ArrayTwo),
      ReplyContent(<<"{", "'title'", ":", "'A'", "}">>),
      ReplyContent(<<"42">>),
      ReplyContent(<<"null">>),
      ReplyContent(<<"Sorry", ",", " ", "no", " ", "outline">>) }

NoOutline == [src |-> "none", entries |-> <<>>, value |-> JNull]
ParserOutline(entries) == [src |-> "parser", entries |-> entries, value |-> JNull]
LlmOutline(v) == [src |-> "llm", entries |-> <<>>, value |-> v]

InitApp ==
    /\ pc = "clicked"
    /\ text \in AppTexts
    /\ max_slides \in MinSlider..MaxSlider
    /\ cfg_name \in {NameNone, NameOpenAI, NameAnthropic, NameGemini}
    /\ api_key \in {<<>>, <<"k">>}
    /\ reply \in AppReplies
    /\ template \in Templates
    /\ auto_notes \in BOOLEAN
    /\ outline = NoOutline
    /\ llm = LlmIdle
    /\ calls = <<>> /\ slides = <<>> /\ warnings = <<>>
    /\ sections = <<>> /\ text_frame = <<>> /\ bullets = <<>>

\* app.py l.74-88
Validate ==
    /\ pc = "clicked"
    /\ IF text = <<>> \/ ~template.present
       THEN pc' = "stopped" /\ warnings' = Append(warnings, "missing input")
       ELSE IF template.oversized
            THEN pc' = "stopped" /\ warnings' = Append(warnings, "template too large")
            ELSE pc' = "decide" /\ UNCHANGED warnings
    /\ UNCHANGED <<text, max_slides, sections, outline, cfg_name, api_key, reply,
                   calls, llm, template, slides, text_frame, bullets, auto_notes>>

\* app.py l.90-103
DecideOutline ==
    /\ pc = "decide"
    /\ pc' = "plan"
    /\ IF cfg_name = NameNone
       THEN UNCHANGED <<outline, calls, llm, warnings>>
       ELSE IF api_key = <<>>
            THEN /\ warnings' = Append(warnings, "no api key")
                 /\ UNCHANGED <<outline, calls, llm>>
            ELSE \E r \in {make_outline_with_llm(cfg_name, reply)} :
                     /\ calls' = calls \o r.calls
                     /\ llm' = [raised |-> r.raised, value |-> r.value]
                     /\ IF r.raised
                        THEN /\ warnings' = Append(warnings, "llm failed")
                             /\ outline' = NoOutline
                        ELSE /\ UNCHANGED warnings
                             /\ outline' = IF r.value.k = "null" THEN NoOutline
                                           ELSE LlmOutline(r.value)
    /\ UNCHANGED <<text, max_slides, sections, cfg_name, api_key, reply,
                   template, slides, text_frame, bullets, auto_notes>>

\* app.py l.106: outline_from_text(...) or heuristic_outline(...)
FallbackOutline(txt, k) ==
    IF outline_from_text(txt, k) # <<>> THEN outline_from_text(txt, k)
    ELSE heuristic_outline(txt, k)

\* app.py l.105-108: the fallback when no outline was taken, then
\* len(outline), which raises on a number
PlanOutline ==
    /\ pc = "plan"
    /\ outline' = IF outline.src = "none"
                  THEN ParserOutline(FallbackOutline(text, max_slides))
                  ELSE outline
    /\ pc' = IF outline.src = "llm" /\ outline.value.k = "num" THEN "crashed" ELSE "build"
    /\ UNCHANGED <<text, max_slides, sections, cfg_name, api_key, reply, calls,
                   llm, template, slides, text_frame, bullets, auto_notes, warnings>>

\* the orders random.shuffle (slide_maker.py l.82) can leave the images in
Shuffles(images) ==
    {[i \in 1..Len(images) |-> images[f[i]]] : f \in Permutations(1..Len(images))}

\* app.py l.110-126
Build ==
    /\ pc = "build"
    /\ IF BuildRaises(outline)
       THEN pc' = "failed" /\ UNCHANGED <<slides, calls>>
       ELSE \E imgs \in Shuffles(template.images) :
                \E deck \in {build_presentation(outline, template, imgs,
                                  [on    |-> auto_notes /\ cfg_name # NameNone /\ api_key # <<>>,
                                   name  |-> cfg_name,
                                   reply |-> reply])} :
                    /\ slides' = deck.slides
                    /\ calls' = calls \o deck.calls
                    /\ pc' = "built"
    /\ UNCHANGED <<text, max_slides, sections, outline, cfg_name, api_key, reply,
                   llm, template, text_frame, bullets, auto_notes, warnings>>

NextApp == Validate \/ DecideOutline \/ PlanOutline \/ Build

SpecApp == InitApp /\ [][NextApp]_vars

\* the run is over: a deck was built, the build failed, or the run crashed
AppEnded == pc \in {"built", "failed", "crashed"}

\* C4: when the LLM step raised or gave no list of {title, bullets} entries,
\* the run ends with a deck built from the heuristic outline
C4_FallbackOnLlmFailure ==
    (AppEnded /\ llm # LlmIdle /\ (llm.raised \/ ~IsEntryList(llm.value))) =>
        (pc = "built" /\ outline.src = "parser")

\* C7: the deck holds the cover slide and then exactly one slide per outline
\* entry, in outline order, each carrying its entry's title
C7_OneSlidePerEntry ==
    pc = "built" =>
        /\ Len(slides) = Len(Entries(outline)) + 1
        /\ \A i \in 1..Len(Entries(outline)) :
               /\ i + 1 <= Len(slides)
               /\ slides[i + 1].has_title
               /\ slides[i + 1].title = Entries(outline)[i].title

====
